---- MODULE Spec2Model ----
(***************************************************************************)
(* Recognition sessions of AzureSpeechModel (src/api/azure_speech.py) as   *)
(* driven by the HTTP handlers of src/main.py.                             *)
(*                                                                         *)
(* Threads of one session: the caller (transcribe / translate running      *)
(* _continuous_recognition_with_timeout), the timeout_handler thread, the  *)
(* engine's callback thread (recognized / canceled / session_stopped) and  *)
(* the stop_worker threads.  The handlers of main.py are `async def`       *)
(* functions without an await in their bodies, so the event loop runs one  *)
(* handler at a time: a new request or a change_custom_model call starts   *)
(* only when the previous handler has returned.                            *)
(*                                                                         *)
(* A text is a sequence of Unicode code points.                            *)
(***************************************************************************)
EXTENDS Integers, Sequences, FiniteSets, TLC

\* ------------------------------------------------------------------ bounds

\* Segment-recognized events the engine delivers in one session.
MaxEvents == 2

\* Length of a segment text handed to the aggregation on its own.
MaxTextLen == 4

\* Alias look-ups applied one after the other to a language code.
MaxApply == 2

\* Words in the error text of a cancellation.
MaxWords == 2

\* ------------------------------------------------------------ text helpers

None == "None"

\* Python's Unicode whitespace (str.isspace, and \s of re on str patterns).
IsSpace(c) ==
    \/ c \in 9..13
    \/ c \in 28..32
    \/ c \in {133, 160, 5760, 8232, 8233, 8239, 8287, 12288}
    \/ c \in 8192..8202

\* [\u4e00-\u9fff]
IsCJK(c) == c >= 19968 /\ c <= 40959

\* The six full-width marks of the second substitution: U+FF0C U+3002 U+FF1F
\* U+FF01 U+FF1B U+FF1A.
IsPunct(c) == c \in {65292, 12290, 65311, 65281, 65307, 65306}

\* The subsequence of s at the positions in K, in order.
RECURSIVE KeepFrom(_, _, _)
KeepFrom(s, K, i) ==
    IF i > Len(s) THEN <<>>
    ELSE IF i \in K THEN <<s[i]>> \o KeepFrom(s, K, i + 1)
    ELSE KeepFrom(s, K, i + 1)

\* TLC passes operator arguments by name; the singleton sets here and below
\* bind an intermediate text to its value, so that it is computed once.
Keep(s, K) == CHOOSE r \in {KeepFrom(v, k, 1) : v \in {s}, k \in {K}} : TRUE

\* Position of the nearest non-whitespace character left of i (0: none).
PrevNonSpace(s, i) ==
    LET J == {j \in 1..(i - 1) : ~IsSpace(s[j])}
    IN IF J = {} THEN 0 ELSE CHOOSE j \in J : \A k \in J : k <= j

\* Position of the nearest non-whitespace character right of i (Len+1: none).
NextNonSpace(s, i) ==
    LET J == {j \in (i + 1)..Len(s) : ~IsSpace(s[j])}
    IN IF J = {} THEN Len(s) + 1 ELSE CHOOSE j \in J : \A k \in J : j <= k

\* str.strip()
Strip(s) ==
    LET N == {j \in 1..Len(s) : ~IsSpace(s[j])}
    IN IF N = {} THEN <<>>
       ELSE Keep(s, {i \in 1..Len(s) :
                       /\ \E j \in N : j <= i
                       /\ \E j \in N : i <= j})

\* " ".join(parts)
RECURSIVE JoinSpace(_)
JoinSpace(parts) ==
    IF parts = <<>> THEN <<>>
    ELSE IF Len(parts) = 1 THEN parts[1]
    ELSE parts[1] \o <<32>> \o JoinSpace(Tail(parts))

\* The first substitution with \s in the place of \s+.
RemoveCJKSpacing_single(s) ==
    Keep(s, {i \in 1..Len(s) :
               ~(/\ IsSpace(s[i])
                 /\ i > 1
                 /\ i < Len(s)
                 /\ IsCJK(s[i - 1])
                 /\ IsCJK(s[i + 1]))})

\* The first substitution without its lookahead.
RemoveCJKSpacing_no_lookahead(s) ==
    Keep(s, {i \in 1..Len(s) :
               ~(/\ IsSpace(s[i])
                 /\ PrevNonSpace(s, i) >= 1
                 /\ NextNonSpace(s, i) <= Len(s)
                 /\ IsCJK(s[PrevNonSpace(s, i)]))})

\* re.sub(r'(?<=[\u4e00-\u9fff])\s+(?=[\u4e00-\u9fff])', '', s): a maximal
\* whitespace run goes when the characters on both sides of it are ideographs.
RemoveCJKSpacing(s) ==
    Keep(s, {i \in 1..Len(s) :
               ~(/\ IsSpace(s[i])
                 /\ PrevNonSpace(s, i) >= 1
                 /\ NextNonSpace(s, i) <= Len(s)
                 /\ IsCJK(s[PrevNonSpace(s, i)])
                 /\ IsCJK(s[NextNonSpace(s, i)]))})

\* The second substitution without its trailing \s*.
RemovePunctSpacing_before_only(s) ==
    Keep(s, {i \in 1..Len(s) :
               ~(/\ IsSpace(s[i])
                 /\ NextNonSpace(s, i) <= Len(s)
                 /\ IsPunct(s[NextNonSpace(s, i)]))})

\* re.sub(r'\s*([<marks>])\s*', r'\1', s): a maximal whitespace run goes when
\* the character on either side of it is one of the marks.
RemovePunctSpacing(s) ==
    Keep(s, {i \in 1..Len(s) :
               ~(/\ IsSpace(s[i])
                 /\ \/ /\ PrevNonSpace(s, i) >= 1
                       /\ IsPunct(s[PrevNonSpace(s, i)])
                    \/ /\ NextNonSpace(s, i) <= Len(s)
                       /\ IsPunct(s[NextNonSpace(s, i)]))})

\* The third substitution left out.
CollapseSpaces_keep_runs(s) == s

\* re.sub(r'\s+', ' ', s).strip()
CollapseSpaces(s) ==
    LET first == {i \in 1..Len(s) : ~IsSpace(s[i]) \/ i = 1 \/ ~IsSpace(s[i - 1])}
        one   == [i \in 1..Len(s) |-> IF IsSpace(s[i]) THEN 32 ELSE s[i]]
    IN CHOOSE r \in {Strip(s1) : s1 \in {Keep(one, first)}} : TRUE

\* The three substitutions applied to the joined, stripped segments.
CleanSpacing(s) ==
    CHOOSE r \in {CollapseSpaces(s2) :
                    s2 \in {RemovePunctSpacing(s1) :
                              s1 \in {RemoveCJKSpacing(s0) : s0 \in {s}}}} : TRUE

\* The combined text left unset when there is no segment.
CombineSegments_none(segments) ==
    IF segments # <<>>
    THEN CleanSpacing(Strip(JoinSpace(segments)))
    ELSE None

\* Lines 298-313: the combined text of a list of segments.
CombineSegments(segments) ==
    IF segments # <<>>
    THEN CHOOSE r \in {CleanSpacing(s1) :
                         s1 \in {Strip(s0) : s0 \in {JoinSpace(segments)}}} : TRUE
    ELSE <<>>

\* ------------------------------------------------- ordered dicts (Python)

\* A dict is the sequence of its <<key, value>> pairs in insertion order.
EmptyDict == <<>>

DictKeys(d) == {d[i][1] : i \in 1..Len(d)}

DictGet(d, k) == d[CHOOSE i \in 1..Len(d) : d[i][1] = k][2]

\* d[k] = v
DictSet(d, k, v) ==
    IF k \in DictKeys(d)
    THEN [i \in 1..Len(d) |-> IF d[i][1] = k THEN <<k, v>> ELSE d[i]]
    ELSE Append(d, <<k, v>>)

\* ------------------------------------------- the custom vocabulary (phrases)

\* s.split(sep): the pieces of s between the occurrences of the character sep.
RECURSIVE split(_, _)
split(s, sep) ==
    LET at == {i \in 1..Len(s) : s[i] = sep}
    IN IF at = {} THEN <<s>>
       ELSE LET i == CHOOSE j \in at : \A k \in at : j <= k
            IN <<SubSeq(s, 1, i - 1)>> \o split(SubSeq(s, i + 1, Len(s)), sep)

\* [word.strip() for word in words], then [word for word in words if word]
RECURSIVE strip_words(_)
strip_words(words) ==
    IF words = <<>> THEN <<>>
    ELSE (IF Strip(words[1]) # <<>> THEN <<Strip(words[1])>> ELSE <<>>)
         \o strip_words(Tail(words))

Comma == 44

\* main.py update_dictionary, lines 158-173: the list handed to update_dict.
update_dictionary(dictionary) ==
    IF Strip(dictionary) = <<>> THEN <<>>
    ELSE strip_words(split(dictionary, Comma))

\* azure_speech.py update_dict, line 100: self.dict is bound to the new list.
update_dict(self_dict, dictionary) == dictionary

\* The phrase list loaded from prev_text alone.
set_dict_prev_only(self_dict, prev) ==
    strip_words([i \in 1..Len(prev) |-> <<prev[i]>>])

\* azure_speech.py _set_dict, lines 111-120: the phrases added to the
\* recognizer's phrase list, in order. words.extend(prev_text) iterates the
\* str prev_text, so every character of it is one more word.
set_dict(self_dict, prev) ==
    strip_words(self_dict \o [i \in 1..Len(prev) |-> <<prev[i]>>])

\* ------------------------------------------------------ src/lib/constant.py

LANGUAGE_LIST == <<"zh", "en", "de">>

\* The look-up by subscript, which has no default for a missing key.
LANGUAGE_MATCH_subscript(code) ==
    CASE code = "zh" -> "zh-TW"
      [] code = "en" -> "en-US"
      [] code = "de" -> "de-DE"
      [] OTHER -> "KeyError"

\* LANGUAGE_MATCH.get(code, code)
LANGUAGE_MATCH(code) ==
    CASE code = "zh" -> "zh-TW"
      [] code = "en" -> "en-US"
      [] code = "de" -> "de-DE"
      [] OTHER -> code

\* The backward table without its zh-TW entry.
LANGUAGE_MATCH_BACK_hant_only(code) ==
    CASE code = "zh-Hant" -> "zh"
      [] code = "en-US" -> "en"
      [] code = "de-DE" -> "de"
      [] OTHER -> code

\* LANGUAGE_MATCH_BACK.get(code, code)
LANGUAGE_MATCH_BACK(code) ==
    CASE code = "zh-Hant" -> "zh"
      [] code = "zh-TW" -> "zh"
      [] code = "en-US" -> "en"
      [] code = "de-DE" -> "de"
      [] OTHER -> code

\* --------------------------------------------------- src/api/audio_utils.py

\* A non-negative rational n/d in lowest terms is <<n, d>>.
RECURSIVE Gcd(_, _)
Gcd(a, b) == IF b = 0 THEN a ELSE Gcd(b, a % b)

Rat(n, d) == IF n = 0 THEN <<0, 1>> ELSE <<n \div Gcd(n, d), d \div Gcd(n, d)>>

ZeroRtf == Rat(0, 1)

\* What a try block ends with: an exception, or a returned value.
Raise == [raised |-> TRUE]

Returns(v) == [raised |-> FALSE, ret |-> v]

\* get_audio_duration, lines 18-21: sf.info raises on a file it cannot read,
\* and the division raises ZeroDivisionError on a sample rate of 0.
get_audio_duration_try(probe) ==
    IF ~probe.ok THEN Raise
    ELSE IF probe.samplerate = 0 THEN Raise
    ELSE Returns(Rat(probe.frames, probe.samplerate))

\* get_audio_duration: the duration, None when the try block raised.
get_audio_duration(probe) ==
    IF get_audio_duration_try(probe).raised THEN None
    ELSE get_audio_duration_try(probe).ret

\* calculate_rtf, lines 40-48.  duration is result.duration: [tag |-> "int",
\* v |-> ticks], [tag |-> "timedelta", v |-> seconds], [tag |-> "float", v |->
\* seconds], [tag |-> "None"], or [tag |-> "other"] for a value that is true
\* and that float() rejects.
azure_duration_seconds(duration) ==
    CASE duration.tag = "int" -> Returns(Rat(duration.v, 10000000))
      [] duration.tag = "timedelta" -> Returns(Rat(duration.v, 1))
      [] duration.tag = "float" -> Returns(Rat(duration.v, 1))
      [] duration.tag = "None" -> Returns(Rat(0, 1))
      [] OTHER -> Raise

\* The fallback chain with the file asked first.
calculate_rtf_probe_first(duration, probe, processing_time) ==
    LET azure == azure_duration_seconds(duration)
        file == get_audio_duration(probe)
    IN IF file # None /\ file[1] > 0
       THEN [raised |-> FALSE, probed |-> TRUE,
             ret |-> Rat(processing_time * file[2], file[1])]
       ELSE IF ~azure.raised /\ azure.ret[1] > 0
            THEN [raised |-> FALSE, probed |-> TRUE,
                  ret |-> Rat(processing_time * azure.ret[2], azure.ret[1])]
       ELSE [raised |-> FALSE, probed |-> TRUE, ret |-> ZeroRtf]

\* calculate_rtf, lines 39-60: what the try block ends with, and whether it
\* called get_audio_duration.
calculate_rtf_try(duration, probe, processing_time) ==
    LET azure == azure_duration_seconds(duration)
        file == get_audio_duration(probe)
    IN IF azure.raised THEN [raised |-> TRUE, probed |-> FALSE]
       ELSE IF azure.ret[1] > 0
            THEN [raised |-> FALSE, probed |-> FALSE,
                  ret |-> Rat(processing_time * azure.ret[2], azure.ret[1])]
       ELSE IF file # None /\ file[1] > 0
            THEN [raised |-> FALSE, probed |-> TRUE,
                  ret |-> Rat(processing_time * file[2], file[1])]
       ELSE [raised |-> FALSE, probed |-> TRUE, ret |-> ZeroRtf]

calculate_rtf_uncaught(duration, probe, processing_time) ==
    calculate_rtf_try(duration, probe, processing_time)

\* calculate_rtf, lines 38-64: the except clause turns an exception of the
\* try block into the return of 0.0.
calculate_rtf_call(duration, probe, processing_time) ==
    IF calculate_rtf_try(duration, probe, processing_time).raised
    THEN [raised |-> FALSE,
          probed |-> calculate_rtf_try(duration, probe, processing_time).probed,
          ret |-> ZeroRtf]
    ELSE calculate_rtf_try(duration, probe, processing_time)

\* calculate_rtf(result, audio_file_path, processing_time)
calculate_rtf(duration, probe, processing_time) ==
    calculate_rtf_call(duration, probe, processing_time).ret

\* ------------------------------------------- AzureSpeechModel.key_test

\* Words of cancellation_details.error_details, as code points.
W401 == <<52, 48, 49>>   \* "401"
WUnauthorized == <<85, 110, 97, 117, 116, 104, 111, 114, 105, 122, 101, 100>>   \* "Unauthorized"
W404 == <<52, 48, 52>>   \* "404"
WNotFound == <<78, 111, 116, 32, 70, 111, 117, 110, 100>>   \* "Not Found"
W403 == <<52, 48, 51>>   \* "403"
WForbidden == <<70, 111, 114, 98, 105, 100, 100, 101, 110>>   \* "Forbidden"
WConnection == <<67, 111, 110, 110, 101, 99, 116, 105, 111, 110>>   \* "Connection"
Wtimeout == <<116, 105, 109, 101, 111, 117, 116>>   \* "timeout"
WTimeout == <<84, 105, 109, 101, 111, 117, 116>>   \* "Timeout"
Wconnection == <<99, 111, 110, 110, 101, 99, 116, 105, 111, 110>>   \* "connection"
WQuota == <<113, 117, 111, 116, 97>>   \* "quota"

ErrorWords ==
    {W401, WUnauthorized, W404, WNotFound, W403, WForbidden, WConnection,
     Wtimeout, WTimeout, Wconnection, WQuota}

\* The error texts: up to MaxWords words with single spaces between them.
ErrorDetails ==
    {JoinSpace(ws) : ws \in UNION {[1..k -> ErrorWords] : k \in 0..MaxWords}}

\* sub in s
str_in(sub, s) ==
    \E i \in 0..(Len(s) - Len(sub)) : SubSeq(s, i + 1, i + Len(sub)) = sub

\* s.lower(), on ASCII
str_lower(s) == [i \in 1..Len(s) |-> IF s[i] \in 65..90 THEN s[i] + 32 ELSE s[i]]

\* Lines 636-645 with the 404 test ahead of the 401 test.
classify_404_first(error_details) ==
    IF str_in(W404, error_details) \/ str_in(WNotFound, error_details)
    THEN "Invalid endpoint_id or service region"
    ELSE IF str_in(W401, error_details) \/ str_in(WUnauthorized, error_details)
    THEN "Invalid subscription key"
    ELSE IF str_in(W403, error_details) \/ str_in(WForbidden, error_details)
    THEN "Access denied or quota exceeded"
    ELSE IF \/ str_in(WConnection, error_details)
            \/ str_in(Wtimeout, str_lower(error_details))
    THEN "Network connection issue or invalid region"
    ELSE <<"Configuration error: ", error_details>>

\* key_test, lines 636-645: error_message from error_details.  An f-string is
\* the pair of its fixed text and the value put into it.
classify(error_details) ==
    IF str_in(W401, error_details) \/ str_in(WUnauthorized, error_details)
    THEN "Invalid subscription key"
    ELSE IF str_in(W404, error_details) \/ str_in(WNotFound, error_details)
    THEN "Invalid endpoint_id or service region"
    ELSE IF str_in(W403, error_details) \/ str_in(WForbidden, error_details)
    THEN "Access denied or quota exceeded"
    ELSE IF \/ str_in(WConnection, error_details)
            \/ str_in(Wtimeout, str_lower(error_details))
    THEN "Network connection issue or invalid region"
    ELSE <<"Configuration error: ", error_details>>

\* What recognizer.recognize_once() of key_test ends with: a result with its
\* reason and, when canceled, its cancellation details, or an exception.
RecognizeOnceResults ==
    {[raised |-> FALSE, reason |-> "Canceled", cancellation |-> "Error",
      error_details |-> d] : d \in ErrorDetails}
        \cup {[raised |-> FALSE, reason |-> "Canceled", cancellation |-> "EndOfStream",
               error_details |-> <<>>]}
        \cup {[raised |-> FALSE, reason |-> r, cancellation |-> None,
               error_details |-> <<>>] :
                r \in {"RecognizedSpeech", "NoMatch", "RecognizingSpeech"}}
        \cup {[raised |-> TRUE, site |-> at, reason |-> None, cancellation |-> None,
               error_details |-> <<>>] :
                at \in {"SpeechConfig", "push_stream.write", "recognize_once"}}

\* NoMatch taken for an unexpected result.
key_test_recognized_only(once) ==
    IF once.raised
    THEN [is_valid |-> FALSE, error_message |-> <<"Configuration test exception: ", "e">>]
    ELSE IF once.reason = "Canceled"
    THEN IF once.cancellation = "Error"
         THEN [is_valid |-> FALSE, error_message |-> classify(once.error_details)]
         ELSE [is_valid |-> TRUE, error_message |-> ""]
    ELSE IF once.reason \in {"RecognizedSpeech"}
    THEN [is_valid |-> TRUE, error_message |-> ""]
    ELSE [is_valid |-> FALSE, error_message |-> <<"Unexpected test result: ", once.reason>>]

\* An unexpected result reported without a message.
key_test_silent_unexpected(once) ==
    IF once.raised
    THEN [is_valid |-> FALSE, error_message |-> <<"Configuration test exception: ", "e">>]
    ELSE IF once.reason = "Canceled"
    THEN IF once.cancellation = "Error"
         THEN [is_valid |-> FALSE, error_message |-> classify(once.error_details)]
         ELSE [is_valid |-> TRUE, error_message |-> ""]
    ELSE IF once.reason \in {"RecognizedSpeech", "NoMatch"}
    THEN [is_valid |-> TRUE, error_message |-> ""]
    ELSE [is_valid |-> FALSE, error_message |-> ""]

\* key_test, lines 577-578 and 593-663 (name is None), from what the try
\* block ended with: the pair (is_valid, error_message).
key_test(once) ==
    IF once.raised
    THEN [is_valid |-> FALSE, error_message |-> <<"Configuration test exception: ", "e">>]
    ELSE IF once.reason = "Canceled"
    THEN IF once.cancellation = "Error"
         THEN [is_valid |-> FALSE, error_message |-> classify(once.error_details)]
         ELSE [is_valid |-> TRUE, error_message |-> ""]
    ELSE IF once.reason \in {"RecognizedSpeech", "NoMatch"}
    THEN [is_valid |-> TRUE, error_message |-> ""]
    ELSE [is_valid |-> FALSE, error_message |-> <<"Unexpected test result: ", once.reason>>]

\* What key_test(name=...) finds at ./lib/{name}.json: no file, a file that
\* open() or json.load() fails on (upload_custom_model writes the form fields
\* between double quotes without escaping them), or a JSON object.
NamedFiles == {"missing", "malformed", "ok"}

\* key_test(name=name), lines 577-663.  Lines 580-591 run before the try
\* statement of line 593: tried tells whether the try block was entered.
key_test_name(file, once) ==
    IF file = "missing"
    THEN [raised |-> FALSE, tried |-> FALSE,
          out |-> [is_valid |-> FALSE,
                   error_message |->
                       "The custom model config path does not exist, please check the path."]]
    ELSE IF file = "malformed"
    THEN [raised |-> TRUE, tried |-> FALSE, out |-> None]
    ELSE [raised |-> FALSE, tried |-> TRUE, out |-> key_test(once)]

\* ------------------------------------------------------------------ inputs

\* Config files under ./lib: the JSON keys name, SubscriptionKey,
\* ServiceRegion, EndpointId (None: key absent).
ConfigFiles ==
    { [name |-> "m1", SubscriptionKey |-> "k1", ServiceRegion |-> "r1", EndpointId |-> "e1"],
      [name |-> "m2", SubscriptionKey |-> "k2", ServiceRegion |-> "r2", EndpointId |-> None],
      [name |-> None, SubscriptionKey |-> "k3", ServiceRegion |-> "r3", EndpointId |-> "e3"] }

\* The file AzureSpeechModel() is constructed from; the lifespan check of
\* main.py refuses to serve without key and region.
DEFAULT_CONFIG ==
    [name |-> "m1", SubscriptionKey |-> "k1", ServiceRegion |-> "r1", EndpointId |-> "e1"]

\* o_lang as the handlers pass it on: "" or a member of LANGUAGE_LIST for
\* /transcription, a member of LANGUAGE_LIST for /translate.
TranscribeOris == {"", "zh"}
TranslateOris == {"zh"}

He == <<72, 101>>
Llo == <<108, 108, 111>>
Ni == <<20320>>

\* evt.result of a recognized event: its text and, for a translation
\* recognizer, its translations dict.
TranscribeEvents ==
    { [text |-> t, translations |-> EmptyDict] : t \in {<<>>, He, Llo, Ni} }

TranslateEvents ==
    { [text |-> He, translations |-> << <<"zh-Hant", Ni>>, <<"en", He>> >>],
      [text |-> Llo, translations |-> << <<"zh-TW", Ni>>, <<"en", Llo>> >>],
      [text |-> <<>>, translations |-> << <<"en", He>> >>] }

Events(m) == IF m = "translate" THEN TranslateEvents ELSE TranscribeEvents

\* time.time() - start_time, in seconds, and what sf.info finds in the file.
ProcTimes == {2, 5}

\* The dictionary form field of /update_dictionary: "", "a, b", " a,,b ".
DictionaryStrings == {<<>>, <<97, 44, 32, 98>>, <<32, 97, 44, 44, 98, 32>>}

\* The prev_text form field of a request: "c d". (What _set_dict does with
\* other texts, the empty default among them, is covered by calling it on
\* its own.)
PrevTexts == {<<99, 32, 100>>}

Probes ==
    { [ok |-> FALSE, frames |-> 0, samplerate |-> 0],
      [ok |-> TRUE, frames |-> 160000, samplerate |-> 16000],
      [ok |-> TRUE, frames |-> 160000, samplerate |-> 0],
      [ok |-> TRUE, frames |-> 0, samplerate |-> 16000] }

\* ------------------------------------------------------------------- state

VARIABLES
    model_cfg,               \* the global model: model_version, subscription_key,
                             \* service_region, endpoint_id
    pc,                      \* where the running handler is ("idle": none runs)
    mode,                    \* "transcribe" | "translate"
    ori,                     \* the handler's o_lang
    recognizer,              \* what the session's recognizer was built from
    engine_started,          \* start_continuous_recognition() has returned
    transcription_results,   \* list of segment texts
    translation_results,     \* dict: target language -> list of fragments
    recognition_done,
    timeout_occurred,
    timer,                   \* position of the timeout_handler thread
    stop_timer,              \* the stop_worker thread spawned by timeout_handler
    stop_caller,             \* the stop_worker thread spawned by the caller
    combined_transcription,
    combined_translations,
    result,                  \* what transcribe / translate returned
    arrived,                 \* history: every recognized event, in arrival order
    agg_len,                 \* history: Len(arrived) when line 300 read the list
    loop_exit,               \* history: the flag that ended the wait loop
    failed_at,               \* history: where an exception was raised
    winner,                  \* history: which of the two flags was set first
    outcome,                 \* history: Completed | TimedOut | Errored
    dict,                    \* the global model's custom vocabulary: self.dict
    prev_text,               \* the handler's prev_text
    response,                \* the BaseResponse the handler has built
    call,                    \* a function called on its own: its name and arguments
    value                    \* what that call returned

vars == <<model_cfg, pc, mode, ori, recognizer, engine_started,
          transcription_results, translation_results, recognition_done,
          timeout_occurred, timer, stop_timer, stop_caller,
          combined_transcription, combined_translations, result,
          arrived, agg_len, loop_exit, failed_at, winner, outcome, dict, prev_text,
          response, call, value>>

cfg_vars == <<model_cfg, dict>>
req_vars == <<mode, ori, recognizer, prev_text>>
flag_vars == <<recognition_done, timeout_occurred>>
seg_vars == <<transcription_results, translation_results, arrived>>
thread_vars == <<timer, stop_timer, stop_caller>>
agg_vars == <<combined_transcription, combined_translations, agg_len>>
end_vars == <<result, outcome>>
unit_vars == <<call, value>>
program_vars == <<cfg_vars, pc, req_vars, engine_started, flag_vars, seg_vars,
                  thread_vars, agg_vars, end_vars, loop_exit, failed_at, winner,
                  response>>

NoResult == [kind |-> "none"]

NoCall == [fn |-> "none"]

NoRecognizer ==
    [subscription |-> None, region |-> None, endpoint_id |-> None, languages |-> {},
     phrases |-> <<>>]

NoResponse == [status |-> "none"]

\* The locals of one call of _continuous_recognition_with_timeout (lines
\* 205-208) and of its threads, before the call.
FreshSession ==
    /\ engine_started = FALSE
    /\ transcription_results = <<>>
    /\ translation_results = EmptyDict
    /\ recognition_done = FALSE
    /\ timeout_occurred = FALSE
    /\ timer = "none"
    /\ stop_timer = "none"
    /\ stop_caller = "none"
    /\ combined_transcription = <<>>
    /\ combined_translations = EmptyDict
    /\ result = NoResult
    /\ arrived = <<>>
    /\ agg_len = 0
    /\ loop_exit = "none"
    /\ failed_at = "none"
    /\ winner = "none"
    /\ outcome = "none"

\* model = AzureSpeechModel(): __init__ has run and no request is being served.
Constructed ==
    /\ model_cfg = [model_version |-> DEFAULT_CONFIG.name,
                    subscription_key |-> DEFAULT_CONFIG.SubscriptionKey,
                    service_region |-> DEFAULT_CONFIG.ServiceRegion,
                    endpoint_id |-> DEFAULT_CONFIG.EndpointId]
    /\ dict = <<>>
    /\ pc = "idle"
    /\ mode = "none"
    /\ ori = ""
    /\ prev_text = <<>>
    /\ recognizer = NoRecognizer
    /\ response = NoResponse
    /\ FreshSession

\* The service: no function is called on its own.
Init ==
    /\ Constructed
    /\ call = NoCall
    /\ value = NoCall

\* --------------------------------------------------- src/main.py handlers

\* Every endpoint is an `async def` that never awaits: the event loop starts
\* a handler only when no other handler is running.
handler_may_start_threaded(p) == TRUE

handler_may_start(p) == p = "idle"

\* A change that keeps the old endpoint id when the new file has none.
change_custom_model_keep_endpoint(self, config) ==
    IF /\ config.name # None
       /\ config.SubscriptionKey # None
       /\ config.ServiceRegion # None
    THEN [model_version |-> config.name,
          subscription_key |-> config.SubscriptionKey,
          service_region |-> config.ServiceRegion,
          endpoint_id |-> IF config.EndpointId # None THEN config.EndpointId
                          ELSE self.endpoint_id]
    ELSE self

\* AzureSpeechModel.change_custom_model(config_path), on the fields of self.
change_custom_model(self, config) ==
    IF /\ config.name # None
       /\ config.SubscriptionKey # None
       /\ config.ServiceRegion # None
    THEN [model_version |-> config.name,
          subscription_key |-> config.SubscriptionKey,
          service_region |-> config.ServiceRegion,
          endpoint_id |-> config.EndpointId]
    ELSE self

\* The value change_custom_model returns: lines 82-91.
change_custom_model_returns(config) ==
    /\ config.name # None
    /\ config.SubscriptionKey # None
    /\ config.ServiceRegion # None

\* POST /change_custom_model: key_test(name=name) asks the engine, and only a
\* valid answer lets model.change_custom_model run.
ChangeCustomModel ==
    /\ handler_may_start(pc)
    /\ \E config \in ConfigFiles, once \in RecognizeOnceResults :
         model_cfg' = IF key_test(once).is_valid
                      THEN change_custom_model(model_cfg, config)
                      ELSE model_cfg
    /\ UNCHANGED <<unit_vars, response, dict, pc, req_vars, engine_started, flag_vars,
                   seg_vars, thread_vars, agg_vars, end_vars, loop_exit, failed_at, winner>>

\* POST /update_dictionary, main.py lines 152-176.
UpdateDictionary ==
    /\ handler_may_start(pc)
    /\ \E dictionary \in DictionaryStrings :
         dict' = update_dict(dict, update_dictionary(dictionary))
    /\ UNCHANGED <<unit_vars, response, model_cfg, pc, req_vars, engine_started, flag_vars,
                   seg_vars, thread_vars, agg_vars, end_vars, loop_exit, failed_at, winner>>

\* ------------------------------------------- transcribe / translate returns

\* transcribe, line 404
transcribe_timeout_return(t) ==
    [kind |-> "transcribe", text |-> <<>>, rtf |-> ZeroRtf, time |-> t,
     language |-> "unknown"]

transcribe_except_reraise(t) == [kind |-> "raised"]

\* transcribe, lines 447-449
transcribe_except_return(t) ==
    [kind |-> "transcribe", text |-> <<>>, rtf |-> ZeroRtf, time |-> t,
     language |-> "unknown"]

translate_timeout_return_swapped(t) ==
    [kind |-> "translate", text |-> <<>>, translations |-> EmptyDict,
     rtf |-> Rat(t, 1), time |-> 0]

\* translate, line 529
translate_timeout_return(t) ==
    [kind |-> "translate", text |-> <<>>, translations |-> EmptyDict,
     rtf |-> ZeroRtf, time |-> t]

\* translate, lines 559-561
translate_except_return(t) ==
    [kind |-> "translate", text |-> <<>>, translations |-> EmptyDict,
     rtf |-> ZeroRtf, time |-> t]

except_return(m, t) ==
    IF m = "translate" THEN translate_except_return(t)
    ELSE transcribe_except_return(t)

\* A dummy result that carries an engine duration of 2.5 seconds, in ticks.
dummy_result_duration_ticks == [tag |-> "int", v |-> 25000000]

\* transcribe, lines 416-420, and translate, lines 550-554: the duration
\* attribute of the dummy result handed to calculate_rtf is None.
dummy_result_duration == [tag |-> "None"]

\* any('一' <= char <= '鿿' for char in text)
has_chinese(text) == \E i \in 1..Len(text) : IsCJK(text[i])

\* The text-based detection applied to every session.
transcribe_result_detect_always(transcription_text, o, t, probe) ==
    [kind |-> "transcribe",
     text |-> transcription_text,
     rtf |-> calculate_rtf([tag |-> "None"], probe, t),
     time |-> t,
     language |->
         IF transcription_text # <<>>
         THEN IF has_chinese(transcription_text) THEN "zh-TW" ELSE "en-US"
         ELSE "unknown"]

\* "unknown" for every empty text, whatever language was requested.
transcribe_result_unknown_when_empty(transcription_text, o, t, probe) ==
    [kind |-> "transcribe",
     text |-> transcription_text,
     rtf |-> calculate_rtf([tag |-> "None"], probe, t),
     time |-> t,
     language |->
         IF transcription_text = <<>> THEN "unknown"
         ELSE IF o = ""
         THEN IF has_chinese(transcription_text) THEN "zh-TW" ELSE "en-US"
         ELSE LANGUAGE_MATCH(o)]

\* transcribe, lines 406-445: the result of a session that did not time out.
transcribe_result(transcription_text, o, t, probe) ==
    [kind |-> "transcribe",
     text |-> transcription_text,
     rtf |-> calculate_rtf(dummy_result_duration, probe, t),
     time |-> t,
     language |->
         IF o = ""
         THEN IF transcription_text # <<>>
              THEN IF has_chinese(transcription_text) THEN "zh-TW" ELSE "en-US"
              ELSE "unknown"
         ELSE LANGUAGE_MATCH(o)]

transcribe_finish_unchecked(transcription_text, timeout, o, t, probe) ==
    transcribe_result(transcription_text, o, t, probe)

\* transcribe, lines 401-445, from the pair the wrapper returned.
transcribe_finish(transcription_text, timeout, o, t, probe) ==
    IF timeout THEN transcribe_timeout_return(t)
    ELSE transcribe_result(transcription_text, o, t, probe)

\* The raw translations under the keys the engine delivered.
match_back_raw_keys(raw, acc) == raw

\* translate, lines 538-541: the raw translations under their user codes.
RECURSIVE match_back(_, _)
match_back(raw, acc) ==
    IF raw = <<>> THEN acc
    ELSE match_back(Tail(raw),
                    DictSet(acc, LANGUAGE_MATCH_BACK(raw[1][1]), raw[1][2]))

\* translate, lines 526-557, from the triple the wrapper returned.
translate_finish(transcription_text, raw_translations, timeout, t, probe) ==
    IF timeout THEN translate_timeout_return(t)
    ELSE [kind |-> "translate",
          text |-> transcription_text,
          translations |-> IF transcription_text # <<>>
                           THEN match_back(raw_translations, EmptyDict)
                           ELSE EmptyDict,
          rtf |-> calculate_rtf(dummy_result_duration, probe, t),
          time |-> t]

\* `translated_text is {}`: identity with a dict the expression has just
\* created, which no object that existed before has.
is_empty_literal(d) == FALSE

\* {lang: "" for lang in LANGUAGE_LIST}
DEFAULT_RESULT == [i \in 1..Len(LANGUAGE_LIST) |-> <<LANGUAGE_LIST[i], <<>>>>]

\* main.py transcription, lines 295-307: the BaseResponse of the handler.
transcription_response(r) ==
    [endpoint |-> "transcription",
     status |-> IF <<>> = r.text /\ r.rtf = ZeroRtf /\ r.language = "unknown"
                THEN "FAILED" ELSE "OK",
     language |-> r.language,
     transcription_text |-> r.text,
     transcribe_time |-> r.time]

\* main.py translate, lines 390-414: the BaseResponse of the handler.
translate_response(o_lang, r) ==
    [endpoint |-> "translate",
     status |-> IF <<>> = r.text /\ is_empty_literal(r.translations) /\ r.rtf = ZeroRtf
                THEN "FAILED" ELSE "OK",
     translate_text |-> IF is_empty_literal(r.translations)
                        THEN DictSet(DEFAULT_RESULT, o_lang, r.text)
                        ELSE r.translations,
     translate_time |-> r.time]

\* The handler's return statement, from what model.transcribe /
\* model.translate returned; an exception they raise is answered by the
\* except clause (main.py lines 308-310, 415-417).
handler_response(m, o_lang, r) ==
    IF r.kind = "raised"
    THEN [endpoint |-> IF m = "translate" THEN "translate" ELSE "transcription",
          status |-> "FAILED"]
    ELSE IF m = "translate" THEN translate_response(o_lang, r)
    ELSE transcription_response(r)

\* ----------------------------------------------------- the caller's thread

\* language.strip() == "" for the language codes of the model: the empty
\* string and the blank.
strips_to_empty(language) == language \in {"", " "}

\* Transcription that auto-detects for the empty string only.
recognition_languages_empty_only(m, o) ==
    IF m = "translate"
    THEN {IF o # None /\ o # "" THEN LANGUAGE_MATCH(o) ELSE "zh-TW"}
    ELSE IF o = "" THEN {"zh-TW", "en-US", "de-DE"} ELSE {LANGUAGE_MATCH(o)}

\* The recognizer's languages: lines 373-391 (transcribe: `language is None or
\* language.strip() == ""`), 490-497 (translate: `if language:`).
recognition_languages(m, o) ==
    IF m = "translate"
    THEN {IF o # None /\ o # "" THEN LANGUAGE_MATCH(o) ELSE "zh-TW"}
    ELSE IF o = None \/ strips_to_empty(o)
         THEN {"zh-TW", "en-US", "de-DE"}
         ELSE {LANGUAGE_MATCH(o)}

\* The except clause of transcribe / translate.
Except(where) ==
    /\ \E t \in ProcTimes : result' = except_return(mode, t)
    /\ response' = handler_response(mode, ori, result')
    /\ pc' = "returned"
    /\ outcome' = "Errored"
    /\ failed_at' = where

\* The request handler calls model.transcribe / model.translate, which builds
\* its SpeechConfig from self.subscription_key and self.service_region (lines
\* 356-359, 473-476); the constructor may raise.
Begin(m, o) ==
    /\ handler_may_start(pc)
    /\ model_cfg.model_version # None
    /\ mode' = m
    /\ ori' = o
    /\ \E prev \in PrevTexts : prev_text' = prev
    /\ \/ /\ recognizer' = [subscription |-> model_cfg.subscription_key,
                            region |-> model_cfg.service_region,
                            endpoint_id |-> None,
                            languages |-> {},
                            phrases |-> <<>>]
          /\ pc' = "create_recognizer"
          /\ UNCHANGED <<end_vars, failed_at, response>>
       \/ /\ UNCHANGED recognizer
          /\ \E t \in ProcTimes : result' = except_return(m, t)
          /\ response' = handler_response(m, o, result')
          /\ pc' = "returned"
          /\ outcome' = "Errored"
          /\ failed_at' = "config"
    /\ UNCHANGED <<unit_vars, cfg_vars, engine_started, flag_vars, seg_vars, thread_vars,
                   agg_vars, loop_exit, winner>>

Transcribe == \E o \in TranscribeOris : Begin("transcribe", o)

Translate == \E o \in TranslateOris : Begin("translate", o)

\* Lines 364-396 / 481-520 and 263-275: the endpoint id is read from self,
\* the recognizer is created, the callbacks are connected and the timeout
\* thread is started.
CreateRecognizer ==
    /\ pc = "create_recognizer"
    /\ recognizer' = [recognizer EXCEPT
                        !.endpoint_id = IF model_cfg.endpoint_id # None
                                        THEN model_cfg.endpoint_id ELSE None,
                        !.languages = recognition_languages(mode, ori),
                        !.phrases = set_dict(dict, prev_text)]
    /\ timer' = "sleeping"
    /\ pc' = "start_recognition"
    /\ UNCHANGED <<unit_vars, response, cfg_vars, mode, ori, prev_text, engine_started, flag_vars, seg_vars,
                   stop_timer, stop_caller, agg_vars, end_vars, loop_exit, failed_at, winner>>

\* Creating the audio config or the recognizer raises.
CreateRecognizerRaise ==
    /\ pc = "create_recognizer"
    /\ Except("config")
    /\ UNCHANGED <<unit_vars, cfg_vars, req_vars, engine_started, flag_vars, seg_vars,
                   thread_vars, agg_vars, loop_exit, winner>>

\* Line 279.
StartRecognition ==
    /\ pc = "start_recognition"
    /\ engine_started' = TRUE
    /\ pc' = "wait_done"
    /\ UNCHANGED <<unit_vars, response, cfg_vars, req_vars, flag_vars, seg_vars, thread_vars, agg_vars,
                   end_vars, loop_exit, failed_at, winner>>

\* Lines 291-295: an exception of the try block is swallowed when the timeout
\* flag is set and re-raised to transcribe / translate otherwise.
\* An except clause that re-raises whatever the flag is.
Raised_reraise_always(where) == Except(where)

Raised(where) ==
    IF timeout_occurred
    THEN /\ pc' = "combine_text"
         /\ failed_at' = where
         /\ UNCHANGED <<end_vars, response>>
    ELSE Except(where)

\* Line 279 raises.
StartRecognitionRaise ==
    /\ pc = "start_recognition"
    /\ Raised("start")
    /\ UNCHANGED <<unit_vars, cfg_vars, req_vars, engine_started, flag_vars, seg_vars,
                   thread_vars, agg_vars, loop_exit, winner>>

\* Line 282, first operand: `not recognition_done`.
WaitCheckDone ==
    /\ pc = "wait_done"
    /\ IF recognition_done
       THEN pc' = "stop" /\ loop_exit' = "terminal"
       ELSE pc' = "wait_timeout" /\ UNCHANGED loop_exit
    /\ UNCHANGED <<unit_vars, response, cfg_vars, req_vars, engine_started, flag_vars, seg_vars,
                   thread_vars, agg_vars, end_vars, failed_at, winner>>

wait_goes_on_whatever(timeout) == TRUE

\* Line 282, second operand: `not timeout_occurred`.
wait_goes_on(timeout) == ~timeout

\* Line 282, second operand; line 283 sleeps.
WaitCheckTimeout ==
    /\ pc = "wait_timeout"
    /\ IF ~wait_goes_on(timeout_occurred)
       THEN pc' = "stop" /\ loop_exit' = "timeout"
       ELSE pc' = "wait_done" /\ UNCHANGED loop_exit
    /\ UNCHANGED <<unit_vars, response, cfg_vars, req_vars, engine_started, flag_vars, seg_vars,
                   thread_vars, agg_vars, end_vars, failed_at, winner>>

\* Line 286: stop_recognizer_async("normal completion").
StopAsync ==
    /\ pc = "stop"
    /\ stop_caller' = "running"
    /\ pc' = "join"
    /\ UNCHANGED <<unit_vars, response, cfg_vars, req_vars, engine_started, flag_vars, seg_vars, timer,
                   stop_timer, agg_vars, end_vars, loop_exit, failed_at, winner>>

\* Line 286 raises (the thread cannot be started).
StopAsyncRaise ==
    /\ pc = "stop"
    /\ Raised("stop")
    /\ UNCHANGED <<unit_vars, cfg_vars, req_vars, engine_started, flag_vars, seg_vars,
                   thread_vars, agg_vars, loop_exit, winner>>

\* Line 289: stop_thread.join(timeout=2.0) returns when the thread has ended
\* or when the 2 seconds have elapsed.
join_returns_untimed(stop_thread, elapsed) == stop_thread \in {"done", "failed"}

join_returns(stop_thread, elapsed) == stop_thread \in {"done", "failed"} \/ elapsed

Join ==
    /\ pc = "join"
    /\ \E elapsed \in BOOLEAN : join_returns(stop_caller, elapsed)
    /\ pc' = "combine_text"
    /\ UNCHANGED <<unit_vars, response, cfg_vars, req_vars, engine_started, flag_vars, seg_vars,
                   thread_vars, agg_vars, end_vars, loop_exit, failed_at, winner>>

\* Lines 315-328, per target language.
CombineTranslations(d) ==
    [i \in 1..Len(d) |->
        <<d[i][1],
          CHOOSE r \in {CleanSpacing(s1) :
                          s1 \in {Strip(s0) : s0 \in {JoinSpace(d[i][2])}}} : TRUE>>]

\* Lines 298-313.
CombineText ==
    /\ pc = "combine_text"
    /\ combined_transcription' = CombineSegments(transcription_results)
    /\ agg_len' = Len(arrived)
    /\ pc' = IF mode = "translate" THEN "combine_translations" ELSE "return"
    /\ UNCHANGED <<unit_vars, response, cfg_vars, req_vars, engine_started, flag_vars, seg_vars,
                   thread_vars, combined_translations, end_vars, loop_exit, failed_at, winner>>

\* Lines 315-328.
CombineTranslationsStep ==
    /\ pc = "combine_translations"
    /\ combined_translations' = CombineTranslations(translation_results)
    /\ pc' = "return"
    /\ UNCHANGED <<unit_vars, response, cfg_vars, req_vars, engine_started, flag_vars, seg_vars,
                   thread_vars, combined_transcription, agg_len, end_vars,
                   loop_exit, failed_at, winner>>

\* Lines 329 / 332 read timeout_occurred; transcribe / translate build their
\* result from what the wrapper returned.
Return ==
    /\ pc = "return"
    /\ \E t \in ProcTimes, probe \in Probes :
         result' = IF mode = "translate"
                   THEN translate_finish(combined_transcription, combined_translations,
                                         timeout_occurred, t, probe)
                   ELSE transcribe_finish(combined_transcription, timeout_occurred,
                                          ori, t, probe)
    /\ response' = handler_response(mode, ori, result')
    /\ outcome' = IF timeout_occurred THEN "TimedOut" ELSE "Completed"
    /\ pc' = "returned"
    /\ UNCHANGED <<unit_vars, cfg_vars, req_vars, engine_started, flag_vars, seg_vars,
                   thread_vars, agg_vars, loop_exit, failed_at, winner>>

\* The handler answers the request; the locals of the session are gone, and
\* what its threads still do touches no later session.
Respond ==
    /\ pc = "returned"
    /\ pc' = "idle"
    /\ mode' = "none"
    /\ ori' = ""
    /\ prev_text' = <<>>
    /\ response' = NoResponse
    /\ recognizer' = NoRecognizer
    /\ engine_started' = FALSE
    /\ transcription_results' = <<>>
    /\ translation_results' = EmptyDict
    /\ recognition_done' = FALSE
    /\ timeout_occurred' = FALSE
    /\ timer' = "none"
    /\ stop_timer' = "none"
    /\ stop_caller' = "none"
    /\ combined_transcription' = <<>>
    /\ combined_translations' = EmptyDict
    /\ result' = NoResult
    /\ arrived' = <<>>
    /\ agg_len' = 0
    /\ loop_exit' = "none"
    /\ failed_at' = "none"
    /\ winner' = "none"
    /\ outcome' = "none"
    /\ UNCHANGED <<unit_vars, cfg_vars>>

\* ------------------------------------------------------ the timeout thread

timeout_handler_fires_inverted(done) == done

\* Line 258, after time.sleep(WAITING_TIME).
timeout_handler_fires(done) == ~done

\* A handler that stops the recognizer whatever it finds.
timeout_handler_branch_stop_always(done) ==
    IF timeout_handler_fires(done) THEN "set_flag" ELSE "stop"

\* Lines 258-261: the body of the if statement, or the end of the thread.
timeout_handler_branch(done) ==
    IF timeout_handler_fires(done) THEN "set_flag" ELSE "finished"

TimerWake ==
    /\ timer = "sleeping"
    /\ timer' = timeout_handler_branch(recognition_done)
    /\ UNCHANGED <<unit_vars, response, cfg_vars, pc, req_vars, engine_started, flag_vars, seg_vars,
                   stop_timer, stop_caller, agg_vars, end_vars, loop_exit, failed_at, winner>>

\* Line 259.
TimerSetFlag ==
    /\ timer = "set_flag"
    /\ timeout_occurred' = TRUE
    /\ timer' = "stop"
    /\ winner' = IF winner = "none" THEN "timer" ELSE winner
    /\ UNCHANGED <<unit_vars, response, cfg_vars, pc, req_vars, engine_started, recognition_done, seg_vars,
                   stop_timer, stop_caller, agg_vars, end_vars, loop_exit, failed_at>>

\* Line 261: stop_recognizer_async("timeout").
TimerStop ==
    /\ timer = "stop"
    /\ stop_timer' = "running"
    /\ timer' = "finished"
    /\ UNCHANGED <<unit_vars, response, cfg_vars, pc, req_vars, engine_started, flag_vars, seg_vars,
                   stop_caller, agg_vars, end_vars, loop_exit, failed_at, winner>>

\* ------------------------------------------------------- the stop threads

\* stop_worker, lines 220-225: stop_continuous_recognition() returns or
\* raises (caught and logged), or never comes back.
StopWorkerTimer ==
    /\ stop_timer = "running"
    /\ stop_timer' \in {"done", "failed"}
    /\ UNCHANGED <<unit_vars, response, cfg_vars, pc, req_vars, engine_started, flag_vars, seg_vars,
                   timer, stop_caller, agg_vars, end_vars, loop_exit, failed_at, winner>>

StopWorkerCaller ==
    /\ stop_caller = "running"
    /\ stop_caller' \in {"done", "failed"}
    /\ UNCHANGED <<unit_vars, response, cfg_vars, pc, req_vars, engine_started, flag_vars, seg_vars,
                   timer, stop_timer, agg_vars, end_vars, loop_exit, failed_at, winner>>

\* --------------------------------------------- the engine's callback thread

\* Lines 239-243: the translations of one event, appended per target language.
RECURSIVE append_translations(_, _)
append_translations(results, translations) ==
    IF translations = <<>> THEN results
    ELSE LET lang == translations[1][1]
             old == IF lang \in DictKeys(results) THEN DictGet(results, lang) ELSE <<>>
         IN append_translations(DictSet(results, lang, Append(old, translations[1][2])),
                                Tail(translations))

append_segment_front(results, text) == <<text>> \o results

\* on_result_received, line 234.
append_segment(results, text) == Append(results, text)

\* Every event taken, whatever its text.
has_text_always(evt) == TRUE

\* Line 233: `if evt.result.text:`.
has_text(evt) == evt.text # <<>>

\* on_result_received(evt), lines 232-243.
OnResultReceived ==
    /\ engine_started
    /\ Len(arrived) < MaxEvents
    /\ \E evt \in Events(mode) :
         /\ arrived' = Append(arrived, evt)
         /\ IF has_text(evt)
            THEN /\ transcription_results' = append_segment(transcription_results, evt.text)
                 /\ translation_results' =
                        IF mode = "translate"
                        THEN append_translations(translation_results, evt.translations)
                        ELSE translation_results
            ELSE UNCHANGED <<transcription_results, translation_results>>
    /\ UNCHANGED <<unit_vars, response, cfg_vars, pc, req_vars, engine_started, flag_vars, thread_vars,
                   agg_vars, end_vars, loop_exit, failed_at, winner>>

\* on_canceled(evt), lines 245-248.  A terminal event that finds
\* recognition_done set changes nothing and is left out.
OnCanceled ==
    /\ engine_started
    /\ ~recognition_done
    /\ recognition_done' = TRUE
    /\ winner' = IF winner = "none" THEN "terminal" ELSE winner
    /\ UNCHANGED <<unit_vars, response, cfg_vars, pc, req_vars, engine_started, timeout_occurred, seg_vars,
                   thread_vars, agg_vars, end_vars, loop_exit, failed_at>>

\* on_session_stopped(evt), lines 250-253.
OnSessionStopped ==
    /\ engine_started
    /\ ~recognition_done
    /\ recognition_done' = TRUE
    /\ winner' = IF winner = "none" THEN "terminal" ELSE winner
    /\ UNCHANGED <<unit_vars, response, cfg_vars, pc, req_vars, engine_started, timeout_occurred, seg_vars,
                   thread_vars, agg_vars, end_vars, loop_exit, failed_at>>

\* ----------------------------------------------------------- specification

CallerNext ==
    \/ CreateRecognizer
    \/ CreateRecognizerRaise
    \/ StartRecognition
    \/ StartRecognitionRaise
    \/ WaitCheckDone
    \/ WaitCheckTimeout
    \/ StopAsync
    \/ StopAsyncRaise
    \/ Join
    \/ CombineText
    \/ CombineTranslationsStep
    \/ Return

TimerNext == TimerWake \/ TimerSetFlag \/ TimerStop

Next ==
    \/ ChangeCustomModel
    \/ UpdateDictionary
    \/ Transcribe
    \/ Translate
    \/ CallerNext
    \/ Respond
    \/ TimerNext
    \/ StopWorkerTimer
    \/ StopWorkerCaller
    \/ OnResultReceived
    \/ OnCanceled
    \/ OnSessionStopped

Spec == Init /\ [][Next]_vars

\* The caller and the timeout thread are threads of the process and get to
\* run; nothing is assumed of the engine (its events, its stop call) or of
\* the clients.
FairSpec == Spec /\ WF_vars(CallerNext) /\ WF_vars(TimerNext)

\* ------------------------------------------ functions called on their own

\* Characters of the segment texts: an ideograph, a Latin letter, a space, an
\* ideographic space (U+3000) and the full-width comma.
TextAlphabet == {20320, 97, 32, 12288, 65292}

TextsUpTo(n) == UNION {[1..k -> TextAlphabet] : k \in 0..n}

NiHao_ShiJie == <<20320, 22909, 32, 19990, 30028>>
Hello_ShiJie == <<104, 101, 108, 108, 111, 32, 19990, 30028>>
NiHao_Comma_ShiJie == <<20320, 22909, 32, 65292, 19990, 30028>>

\* evt.result.text of one recognized event: on_result_received keeps it when
\* it is not empty.
SegmentTexts ==
    (TextsUpTo(MaxTextLen) \ {<<>>})
        \cup {NiHao_ShiJie, Hello_ShiJie, NiHao_Comma_ShiJie}

NormalizeCalls == {[fn |-> "normalize", segments |-> <<t>>] : t \in SegmentTexts}

\* Lines 297-313 on a list of segments.
Normalize ==
    /\ call.fn = "normalize"
    /\ value = NoCall
    /\ value' = [fn |-> "normalize", text |-> CombineSegments(call.segments)]
    /\ UNCHANGED <<call, program_vars>>

\* Lines 297-313 on the text they returned, and once more on the segments;
\* lines 316-327 on the same segments as the fragments of one language.
Renormalize ==
    /\ call.fn = "normalize"
    /\ value.fn = "normalize"
    /\ value' = [fn |-> "renormalize",
                 text |-> value.text,
                 again |-> CombineSegments(<<value.text>>),
                 rerun |-> CombineSegments(call.segments),
                 translated |-> CombineTranslations(<< <<"en", call.segments>> >>)]
    /\ UNCHANGED <<call, program_vars>>

\* result.duration of the result handed to calculate_rtf.
EngineDurations ==
    {[tag |-> "int", v |-> n] : n \in {0, 25000000, 100000000, -10000000}}
        \cup {[tag |-> k, v |-> n] : k \in {"timedelta", "float"}, n \in {0, 10, -1}}
        \cup {[tag |-> "None"], [tag |-> "other"]}

CalculateRtfCalls ==
    {[fn |-> "calculate_rtf", duration |-> d, probe |-> p, processing_time |-> t] :
        d \in EngineDurations, p \in Probes, t \in ProcTimes}

\* calculate_rtf(result, audio_file_path, processing_time)
CalculateRtf ==
    /\ call.fn = "calculate_rtf"
    /\ value = NoCall
    /\ value' = [fn |-> "calculate_rtf",
                 out |-> calculate_rtf_call(call.duration, call.probe,
                                            call.processing_time)]
    /\ UNCHANGED <<call, program_vars>>

\* Language codes: the keys and the values of the two tables, and codes that
\* are in neither.
AliasCodes ==
    {"zh", "en", "de", "zh-TW", "en-US", "de-DE", "zh-Hant",
     "ja", "ZH", "zh-CN", "fr-FR", ""}

AliasCalls == {[fn |-> "alias", code |-> c] : c \in AliasCodes}

\* The codes so far, the first one the argument, and the look-ups applied.
AliasTrail ==
    IF value = NoCall
    THEN [fn |-> "alias", codes |-> <<call.code>>, applied |-> <<>>]
    ELSE value

\* LANGUAGE_MATCH.get(language, language): lines 385, 491, 501.
Resolve ==
    /\ call.fn = "alias"
    /\ Len(AliasTrail.applied) < MaxApply
    /\ value' = [AliasTrail EXCEPT
                   !.codes = Append(@, LANGUAGE_MATCH(@[Len(@)])),
                   !.applied = Append(@, "resolve")]
    /\ UNCHANGED <<call, program_vars>>

\* LANGUAGE_MATCH_BACK.get(target_lang, target_lang): line 539.
ResolveBack ==
    /\ call.fn = "alias"
    /\ Len(AliasTrail.applied) < MaxApply
    /\ value' = [AliasTrail EXCEPT
                   !.codes = Append(@, LANGUAGE_MATCH_BACK(@[Len(@)])),
                   !.applied = Append(@, "resolveBack")]
    /\ UNCHANGED <<call, program_vars>>

KeyTestCalls == {[fn |-> "key_test", once |-> r] : r \in RecognizeOnceResults}

\* model.key_test(...)
KeyTest ==
    /\ call.fn = "key_test"
    /\ value = NoCall
    /\ value' = [fn |-> "key_test", out |-> key_test(call.once)]
    /\ UNCHANGED <<call, program_vars>>

KeyTestNameCalls ==
    {[fn |-> "key_test_name", file |-> f, once |-> r] :
        f \in NamedFiles, r \in RecognizeOnceResults}

\* model.key_test(name=name)
KeyTestName ==
    /\ call.fn = "key_test_name"
    /\ value = NoCall
    /\ value' = [fn |-> "key_test_name", ret |-> key_test_name(call.file, call.once)]
    /\ UNCHANGED <<call, program_vars>>

\* self.dict as update_dictionary leaves it, and prev_text: "", "ab", "a b",
\* " ".
SetDictCalls ==
    {[fn |-> "_set_dict", dict |-> d, prev_text |-> t] :
        d \in {update_dictionary(x) : x \in DictionaryStrings \cup {<<97, 32, 98, 44, 99>>}},
        t \in {<<>>, <<97, 98>>, <<97, 32, 98>>, <<32>>}}

\* self._set_dict(prev_text, recognizer)
SetDict ==
    /\ call.fn = "_set_dict"
    /\ value = NoCall
    /\ value' = [fn |-> "_set_dict", phrases |-> set_dict(call.dict, call.prev_text)]
    /\ UNCHANGED <<call, program_vars>>

\* The fields of self before the call, and the JSON object of the file: each
\* of its four keys present or absent.
ChangeCustomModelCalls ==
    {[fn |-> "change_custom_model", self |-> s, config |-> c] :
        s \in {[model_version |-> "m1", subscription_key |-> "k1",
                service_region |-> "r1", endpoint_id |-> x] : x \in {"e1", None}},
        c \in [name : {"m2", None}, SubscriptionKey : {"k2", None},
               ServiceRegion : {"r2", None}, EndpointId : {"e2", None}]}

\* model.change_custom_model(config_path)
ChangeCustomModelCall ==
    /\ call.fn = "change_custom_model"
    /\ value = NoCall
    /\ value' = [fn |-> "change_custom_model",
                 ret |-> change_custom_model_returns(call.config),
                 self |-> change_custom_model(call.self, call.config)]
    /\ UNCHANGED <<call, program_vars>>

\* The language argument of model.transcribe / model.translate: None, "",
\* " ", the codes of LANGUAGE_LIST and a code that is not in it.
LanguageSpecs == {None, "", " ", "zh", "en", "de", "fr"}

ConfigureCalls ==
    {[fn |-> "configure", mode |-> m, language |-> l] :
        m \in {"transcribe", "translate"}, l \in LanguageSpecs}

\* The language configuration of model.transcribe(..., language) /
\* model.translate(..., language).
Configure ==
    /\ call.fn = "configure"
    /\ value = NoCall
    /\ value' = [fn |-> "configure",
                 languages |-> recognition_languages(call.mode, call.language)]
    /\ UNCHANGED <<call, program_vars>>

UnitCalls ==
    NormalizeCalls \cup CalculateRtfCalls \cup AliasCalls \cup KeyTestCalls
        \cup KeyTestNameCalls \cup SetDictCalls \cup ConfigureCalls
        \cup ChangeCustomModelCalls

UnitInit ==
    /\ Constructed
    /\ call \in UnitCalls
    /\ value = NoCall

UnitNext ==
    \/ Normalize
    \/ Renormalize
    \/ CalculateRtf
    \/ Resolve
    \/ ResolveBack
    \/ KeyTest
    \/ KeyTestName
    \/ SetDict
    \/ Configure
    \/ ChangeCustomModelCall

\* One call of one function, on arguments drawn from UnitCalls.
UnitSpec == UnitInit /\ [][UnitNext]_vars

\* ------------------------------------------------------------------ claims

WaitPcs == {"wait_done", "wait_timeout"}

Returned == pc = "returned"

\* The empty result: text "", rtf 0 and language "unknown" (transcribe) or an
\* empty translation mapping (translate).
IsEmptyResult ==
    /\ result.kind \in {"transcribe", "translate"}
    /\ result.text = <<>>
    /\ result.rtf = <<0, 1>>
    /\ IF result.kind = "translate"
       THEN result.translations = <<>>
       ELSE result.language = "unknown"

\* C1: once continuous recognition is started the call returns, and when no
\* canceled or session-stopped event has been delivered by then, what it
\* returns is the timed-out result with empty text.
C1_TimeoutReturns ==
    (engine_started /\ pc \in WaitPcs)
        ~> (Returned /\ (~recognition_done => outcome = "TimedOut" /\ IsEmptyResult))

C1_Witness ==
    /\ Returned
    /\ engine_started
    /\ ~recognition_done
    /\ loop_exit = "timeout"
    /\ outcome = "TimedOut"
    /\ IsEmptyResult

\* C2: a session in which the terminal event came before the timeout flag
\* was set ends its wait loop on that event and is never reported as timed
\* out.
C2_TerminalFirstNotTimedOut ==
    (Returned /\ winner = "terminal" /\ failed_at = "none") => outcome # "TimedOut"

\* C3: the wait loop of a started session is always left, and the session
\* that returns has one of the terminal outcomes.
C3_WaitLoopExits ==
    /\ (pc \in WaitPcs) ~> (pc \notin WaitPcs)
    /\ [](Returned => outcome \in {"Completed", "TimedOut", "Errored"})

C3_Witness ==
    /\ Returned
    /\ loop_exit = "terminal"
    /\ outcome = "Completed"

\* C4: once a terminal event or the timeout has happened, no further segment
\* is accepted into the list the text is built from.
C4_LateSegmentsDropped ==
    [][(recognition_done \/ timeout_occurred)
          => Len(transcription_results') <= Len(transcription_results)]_vars

\* C5: a session that returns with the timeout flag set returns the empty
\* result, whatever segments were collected.
C5_TimeoutDiscardsSegments ==
    (Returned /\ outcome = "TimedOut") => IsEmptyResult

C5_Witness ==
    /\ Returned
    /\ outcome = "TimedOut"
    /\ combined_transcription # <<>>
    /\ IsEmptyResult

\* C6: the caller at the join leaves it and returns a result that is not the
\* error one, also when the stop call never comes back or fails.
C6_StopGraceBounded ==
    (pc = "join") ~> (Returned /\ outcome # "Errored" /\ failed_at = "none")

C6_Witness ==
    /\ Returned
    /\ stop_caller = "running"
    /\ outcome = "Completed"

\* C7: when building or configuring the engine client or starting continuous
\* recognition raised, transcribe and translate return the empty result: they
\* do not raise.
C7_FailureReturnsEmpty ==
    (Returned /\ failed_at \in {"config", "start"})
        => (result.kind # "raised" /\ IsEmptyResult)

C7_Witness ==
    /\ Returned
    /\ failed_at = "start"
    /\ outcome = "Errored"
    /\ IsEmptyResult

timeout_return(m, t) ==
    IF m = "translate" THEN translate_timeout_return(t)
    ELSE transcribe_timeout_return(t)

RECURSIVE ArrivedTexts(_, _)
ArrivedTexts(events, n) ==
    IF n = 0 THEN <<>>
    ELSE IF events[n].text = <<>> THEN ArrivedTexts(events, n - 1)
    ELSE Append(ArrivedTexts(events, n - 1), events[n].text)

\* C10: the text of a completed session is the normalization of the segment
\* texts that had arrived when the list was read, joined in arrival order with
\* single spaces.
C10_ArrivalOrder ==
    (Returned /\ outcome = "Completed")
        => result.text =
             IF ArrivedTexts(arrived, agg_len) = <<>> THEN <<>>
             ELSE CleanSpacing(Strip(JoinSpace(ArrivedTexts(arrived, agg_len))))

\* "He", "llo" give "He llo".
C10_Witness ==
    /\ Returned
    /\ outcome = "Completed"
    /\ Len(arrived) = 2
    /\ arrived[1].text = He
    /\ arrived[2].text = Llo
    /\ result.text = <<72, 101, 32, 108, 108, 111>>

\* ------------------------------------------------- claims on normalization

NotSpace(c) == ~IsSpace(c)

\* The characters of s that are not whitespace, in order.
Letters(s) == SelectSeq(s, NotSpace)

\* Position in s of its k-th character that is not whitespace.
LetterPos(s, k) ==
    CHOOSE i \in 1..Len(s) :
        /\ ~IsSpace(s[i])
        /\ Cardinality({j \in 1..i : ~IsSpace(s[j])}) = k

\* What stands in s between its k-th and its (k+1)-th letter.
GapOf(s, k) == SubSeq(s, LetterPos(s, k) + 1, LetterPos(s, k + 1) - 1)

NeitherCJKNorPunct(c) == ~IsCJK(c) /\ ~IsPunct(c)

\* C11, as claimed: normalization removes a whitespace run between two
\* ideographs and keeps, as one space, a whitespace run one of whose
\* neighbours is neither an ideograph nor one of the six marks.
C11_KeepsRunBesideOther ==
    value.fn = "normalize" =>
        LET s == JoinSpace(call.segments)
            o == value.text
        IN /\ Letters(o) = Letters(s)
           /\ \A k \in 1..(Len(Letters(s)) - 1) :
                LET a == Letters(s)[k]
                    b == Letters(s)[k + 1]
                IN /\ (GapOf(s, k) # <<>> /\ IsCJK(a) /\ IsCJK(b))
                        => GapOf(o, k) = <<>>
                   /\ (GapOf(s, k) # <<>>
                         /\ (NeitherCJKNorPunct(a) \/ NeitherCJKNorPunct(b)))
                        => GapOf(o, k) = <<32>>

\* C11, amended: normalization removes a whitespace run between two
\* ideographs and keeps, as one space, a whitespace run neither of whose
\* neighbours is one of the six marks and whose neighbours are not both
\* ideographs; "ni hao / shi jie" loses its space, "hello / shi jie" keeps it.
C11_CJKSpacing ==
    value.fn = "normalize" =>
        LET s == JoinSpace(call.segments)
            o == value.text
        IN /\ Letters(o) = Letters(s)
           /\ \A k \in 1..(Len(Letters(s)) - 1) :
                LET a == Letters(s)[k]
                    b == Letters(s)[k + 1]
                IN /\ (GapOf(s, k) # <<>> /\ IsCJK(a) /\ IsCJK(b))
                        => GapOf(o, k) = <<>>
                   /\ (GapOf(s, k) # <<>>
                         /\ ~IsPunct(a) /\ ~IsPunct(b)
                         /\ ~(IsCJK(a) /\ IsCJK(b)))
                        => GapOf(o, k) = <<32>>
           /\ call.segments = <<NiHao_ShiJie>> => o = <<20320, 22909, 19990, 30028>>
           /\ call.segments = <<Hello_ShiJie>> => o = Hello_ShiJie

C11_Witness ==
    /\ value.fn = "normalize"
    /\ call.segments = <<NiHao_ShiJie>>
    /\ value.text = <<20320, 22909, 19990, 30028>>

\* C12: in the normalized text no whitespace stands next to one of the six
\* marks, every whitespace left is a single space between two other
\* characters, and the other characters are those of the input in order;
\* "ni hao / comma / shi jie" loses the space before the comma.
C12_PunctSpacing ==
    value.fn = "normalize" =>
        LET s == JoinSpace(call.segments)
            o == value.text
        IN /\ Letters(o) = Letters(s)
           /\ \A i \in 1..Len(o) :
                IsSpace(o[i]) =>
                    /\ o[i] = 32
                    /\ i > 1
                    /\ i < Len(o)
                    /\ ~IsSpace(o[i + 1])
                    /\ ~IsPunct(o[i - 1])
                    /\ ~IsPunct(o[i + 1])
           /\ call.segments = <<NiHao_Comma_ShiJie>>
                => o = <<20320, 22909, 65292, 19990, 30028>>

C12_Witness ==
    /\ value.fn = "normalize"
    /\ call.segments = <<NiHao_Comma_ShiJie>>
    /\ value.text = <<20320, 22909, 65292, 19990, 30028>>

\* ------------------------------------------------------ claims on sessions

\* C13: a session that completes without a recognized segment returns the
\* empty string as its text and, in translation mode, the empty mapping as its
\* translations, never None.
C13_NoSegmentEmptyResult ==
    (Returned /\ outcome = "Completed" /\ transcription_results = <<>>) =>
        /\ result.text # None
        /\ result.text = <<>>
        /\ combined_transcription = <<>>
        /\ mode = "translate" =>
             /\ result.translations # None
             /\ result.translations = EmptyDict
             /\ combined_translations = EmptyDict

C13_Witness ==
    /\ Returned
    /\ outcome = "Completed"
    /\ mode = "translate"
    /\ transcription_results = <<>>
    /\ arrived # <<>>
    /\ result.text = <<>>
    /\ result.translations = EmptyDict

\* The translation fragments for lang carried by the first n recognized
\* events, in arrival order.
RECURSIVE ArrivedFragments(_, _, _)
ArrivedFragments(events, lang, n) ==
    IF n = 0 THEN <<>>
    ELSE IF lang \in DictKeys(events[n].translations)
         THEN Append(ArrivedFragments(events, lang, n - 1),
                     DictGet(events[n].translations, lang))
         ELSE ArrivedFragments(events, lang, n - 1)

\* The target languages for which one of the first n events carries a fragment.
ArrivedLanguages(events, n) ==
    UNION {DictKeys(events[i].translations) : i \in 1..n}

\* C14: in a completed translation session the value of every target language
\* is the normalization of that language's fragments, joined in arrival order
\* with single spaces, whatever the source texts of the events are.  The
\* fragments are those of the events delivered before the results were read:
\* at least the agg_len events the text was built from.
C14_StreamsIndependent ==
    (Returned /\ outcome = "Completed" /\ mode = "translate") =>
        \E n \in agg_len..Len(arrived) :
            \A lang \in ArrivedLanguages(arrived, n) :
                /\ lang \in DictKeys(combined_translations)
                /\ DictGet(combined_translations, lang) =
                       CleanSpacing(Strip(JoinSpace(ArrivedFragments(arrived, lang, n))))

\* ---------------------------------------------------- claims on calculate_rtf

\* The engine duration in seconds as numerator and denominator: ticks over
\* 10^7, total seconds, a plain number, 0 when absent.
EngineSeconds(duration) ==
    CASE duration.tag = "int" -> <<duration.v, 10000000>>
      [] duration.tag \in {"timedelta", "float"} -> <<duration.v, 1>>
      [] OTHER -> <<0, 1>>

\* r = <<a, b>> is the quotient p / (n / d).
IsQuotient(r, p, n, d) == r[2] > 0 /\ r[1] * n = r[2] * p * d

\* C15: for an engine duration that is ticks, a duration, a number or absent:
\* when it is above 0 the RTF is the processing time over it and the file is
\* not probed; otherwise, when the probe gives a duration above 0, the RTF is
\* the processing time over the probed duration; otherwise the RTF is 0.
C15_FallbackChain ==
    (value.fn = "calculate_rtf" /\ call.duration.tag # "other") =>
        LET secs == EngineSeconds(call.duration)
            p == call.probe
            t == call.processing_time
        IN /\ ~value.out.raised
           /\ IF secs[1] > 0
              THEN /\ IsQuotient(value.out.ret, t, secs[1], secs[2])
                   /\ ~value.out.probed
              ELSE IF p.ok /\ p.samplerate > 0 /\ p.frames > 0
                   THEN /\ IsQuotient(value.out.ret, t, p.frames, p.samplerate)
                        /\ value.out.probed
              ELSE value.out.ret = <<0, 1>>

\* Engine duration absent, probed 10.0 s, processing 2.0 s: 0.2.
C15_Witness ==
    /\ value.fn = "calculate_rtf"
    /\ call.duration.tag = "None"
    /\ call.probe = [ok |-> TRUE, frames |-> 160000, samplerate |-> 16000]
    /\ call.processing_time = 2
    /\ value.out.ret = <<1, 5>>

\* C16: calculate_rtf returns and does not raise, and returns 0 when the
\* engine duration is of an unusable type, and when the engine duration is 0,
\* below 0 or absent and the probe fails or has a sample rate or a sample
\* count of 0.
C16_NeverRaises ==
    value.fn = "calculate_rtf" =>
        /\ ~value.out.raised
        /\ call.duration.tag = "other" => value.out.ret = <<0, 1>>
        /\ (/\ call.duration.tag # "other"
            /\ EngineSeconds(call.duration)[1] <= 0
            /\ (~call.probe.ok \/ call.probe.samplerate = 0 \/ call.probe.frames = 0))
              => value.out.ret = <<0, 1>>

C16_Witness ==
    /\ value.fn = "calculate_rtf"
    /\ call.duration.tag = "other"
    /\ call.probe.ok
    /\ call.probe.samplerate > 0
    /\ ~value.out.raised
    /\ value.out.ret = <<0, 1>>

\* C17: the language of a completed transcription that named no language is
\* detected from the text: "zh-TW" when the text has a character in U+4E00 to
\* U+9FFF, otherwise "en-US" when the text is not empty, "unknown" when it is
\* empty; a session that named a language gets that language, resolved, and
\* no detection.
C17_HeuristicDetection ==
    (Returned /\ outcome = "Completed" /\ mode = "transcribe") =>
        LET cjk == \E i \in 1..Len(result.text) : result.text[i] \in 19968..40959
        IN IF ori = ""
           THEN /\ cjk => result.language = "zh-TW"
                /\ (~cjk /\ result.text # <<>>) => result.language = "en-US"
                /\ result.text = <<>> => result.language = "unknown"
           ELSE result.language = LANGUAGE_MATCH(ori)

C17_Witness ==
    /\ Returned
    /\ outcome = "Completed"
    /\ mode = "transcribe"
    /\ ori = ""
    /\ result.text = <<72, 101, 32, 20320>>
    /\ result.language = "zh-TW"

\* ------------------------------------------------ claims on the alias tables

ForwardTable == {<<"zh", "zh-TW">>, <<"en", "en-US">>, <<"de", "de-DE">>}

BackwardTable ==
    {<<"zh-Hant", "zh">>, <<"zh-TW", "zh">>, <<"en-US", "en">>, <<"de-DE", "de">>}

\* r is what table gives for c, c itself when c is not a key of table.
IsLookup(table, c, r) ==
    IF \E p \in table : p[1] = c THEN <<c, r>> \in table ELSE r = c

\* C18: every resolve maps zh, en, de to zh-TW, en-US, de-DE and any other code
\* to itself; every resolveBack maps zh-Hant, zh-TW, en-US, de-DE to zh, zh,
\* en, de and any other code to itself.
C18_AliasTablesExact ==
    value.fn = "alias" =>
        \A k \in 1..Len(value.applied) :
            IF value.applied[k] = "resolve"
            THEN IsLookup(ForwardTable, value.codes[k], value.codes[k + 1])
            ELSE IsLookup(BackwardTable, value.codes[k], value.codes[k + 1])

C18_Witness ==
    /\ value.fn = "alias"
    /\ value.applied = <<"resolveBack", "resolve">>
    /\ value.codes = <<"ja", "ja", "ja">>

\* C19: resolve followed by resolveBack gives back each of zh, en, de;
\* resolve("zh") is "zh-TW", resolveBack of "zh-TW" and of "zh-Hant" is "zh".
C19_AliasRoundTrip ==
    value.fn = "alias" =>
        /\ \A k \in 1..(Len(value.applied) - 1) :
              (/\ value.applied[k] = "resolve"
               /\ value.applied[k + 1] = "resolveBack"
               /\ value.codes[k] \in {"zh", "en", "de"})
                 => value.codes[k + 2] = value.codes[k]
        /\ \A k \in 1..Len(value.applied) :
              /\ (value.applied[k] = "resolve" /\ value.codes[k] = "zh")
                   => value.codes[k + 1] = "zh-TW"
              /\ (value.applied[k] = "resolveBack"
                    /\ value.codes[k] \in {"zh-TW", "zh-Hant"})
                   => value.codes[k + 1] = "zh"

C19_Witness ==
    /\ value.fn = "alias"
    /\ value.applied = <<"resolve", "resolveBack">>
    /\ value.codes = <<"zh", "zh-TW", "zh">>

\* ------------------------------------------------------- claims on key_test

\* The ASCII letter c in lower case.
FoldCase(c) == IF c \in 65..90 THEN c + 32 ELSE c

\* word occurs in text; with fold, whatever the case of the letters of text.
Occurs(word, text, fold) ==
    \E i \in 1..Len(text) :
        \A j \in 1..Len(word) :
            /\ i + j - 1 <= Len(text)
            /\ (IF fold THEN FoldCase(text[i + j - 1]) ELSE text[i + j - 1]) = word[j]

\* C20: a cancellation with an error is classified by the first rule its
\* error text matches, in the order 401 / Unauthorized, 404 / Not Found,
\* 403 / Forbidden, Connection / timeout in any case, and as a configuration
\* error with the text otherwise; in every such case is_valid is False.
C20_KeyTestClassification ==
    (/\ value.fn = "key_test"
     /\ ~call.once.raised
     /\ call.once.reason = "Canceled"
     /\ call.once.cancellation = "Error") =>
        LET d == call.once.error_details
            r401 == Occurs(W401, d, FALSE) \/ Occurs(WUnauthorized, d, FALSE)
            r404 == Occurs(W404, d, FALSE) \/ Occurs(WNotFound, d, FALSE)
            r403 == Occurs(W403, d, FALSE) \/ Occurs(WForbidden, d, FALSE)
            rnet == Occurs(WConnection, d, FALSE) \/ Occurs(Wtimeout, d, TRUE)
            msg == value.out.error_message
        IN /\ value.out.is_valid = FALSE
           /\ r401 => msg = "Invalid subscription key"
           /\ (~r401 /\ r404) => msg = "Invalid endpoint_id or service region"
           /\ (~r401 /\ ~r404 /\ r403) => msg = "Access denied or quota exceeded"
           /\ (~r401 /\ ~r404 /\ ~r403 /\ rnet)
                => msg = "Network connection issue or invalid region"
           /\ (~r401 /\ ~r404 /\ ~r403 /\ ~rnet)
                => msg = <<"Configuration error: ", d>>

\* "404 401" matches two rules and is an invalid subscription key.
C20_Witness ==
    /\ value.fn = "key_test"
    /\ call.once.reason = "Canceled"
    /\ call.once.cancellation = "Error"
    /\ call.once.error_details = <<52, 48, 52, 32, 52, 48, 49>>
    /\ value.out = [is_valid |-> FALSE, error_message |-> "Invalid subscription key"]

\* C21: key_test answers (True, "") exactly when the one-shot recognition
\* ended in a cancellation that is not an error or in RecognizedSpeech or
\* NoMatch; for every other result reason it answers False with the
\* "Unexpected test result" message.
C21_KeyTestValidity ==
    value.fn = "key_test" =>
        LET once == call.once
            ok == /\ ~once.raised
                  /\ \/ once.reason = "Canceled" /\ once.cancellation # "Error"
                     \/ once.reason \in {"RecognizedSpeech", "NoMatch"}
        IN /\ value.out.is_valid = ok
           /\ ok => value.out.error_message = ""
           /\ (~once.raised /\ once.reason \notin {"Canceled", "RecognizedSpeech", "NoMatch"})
                => value.out = [is_valid |-> FALSE,
                                error_message |-> <<"Unexpected test result: ", once.reason>>]

\* Silence recognized as NoMatch: the configuration is valid.
C21_Witness ==
    /\ value.fn = "key_test"
    /\ ~call.once.raised
    /\ call.once.reason = "NoMatch"
    /\ value.out = [is_valid |-> TRUE, error_message |-> ""]

\* C22: key_test never raises: an exception of its try block comes back as
\* (False, reason), and so does a named config file that does not exist,
\* before the try block is entered.
C22_KeyTestNeverRaises ==
    /\ (value.fn = "key_test" /\ call.once.raised) =>
            /\ value.out.is_valid = FALSE
            /\ value.out.error_message # ""
    /\ value.fn = "key_test_name" =>
            /\ ~value.ret.raised
            /\ call.file = "missing" =>
                    /\ ~value.ret.tried
                    /\ value.ret.out.is_valid = FALSE
                    /\ value.ret.out.error_message # ""

Configured == recognizer.languages # {}

\* C23: the phrases a session loads are the entries of the dictionary as it
\* is when the session reads it (followed by what prev_text adds), and from
\* then on they stay as they are until the request is answered, whatever
\* update_dict does.
C23_VocabularySnapshot ==
    [][/\ (~Configured /\ Configured') =>
              LET phrases == recognizer'.phrases
              IN /\ Len(phrases) >= Len(dict)
                 /\ SubSeq(phrases, 1, Len(dict)) = dict
                 /\ \A i \in (Len(dict) + 1)..Len(phrases) :
                        \E j \in 1..Len(prev_text) : phrases[i] = <<prev_text[j]>>
       /\ Configured =>
              \/ recognizer'.phrases = recognizer.phrases
              \/ pc' = "idle"
       /\ dict' # dict => recognizer'.phrases = recognizer.phrases]_vars

\* A session that runs with the two entries of an updated dictionary.
C23_Witness ==
    /\ pc = "wait_done"
    /\ dict = << <<97>>, <<98>> >>
    /\ recognizer.phrases = << <<97>>, <<98>>, <<99>>, <<100>> >>

\* s.split(): the words of s.
RECURSIVE WordsOf(_)
WordsOf(s) ==
    LET t == Strip(s)
        sp == {i \in 1..Len(t) : IsSpace(t[i])}
    IN IF t = <<>> THEN <<>>
       ELSE IF sp = {} THEN <<t>>
       ELSE LET i == CHOOSE j \in sp : \A k \in sp : j <= k
            IN <<SubSeq(t, 1, i - 1)>> \o WordsOf(SubSeq(t, i + 1, Len(t)))

Trimmed(entries) ==
    SelectSeq([i \in 1..Len(entries) |-> Strip(entries[i])], LAMBDA w : w # <<>>)

\* C24: the phrase list is the vocabulary entries followed by the words of
\* prev_text, each trimmed and one phrase, in order, and holds no empty or
\* whitespace-only phrase.
C24_PhraseList ==
    value.fn = "_set_dict" =>
        /\ value.phrases = Trimmed(call.dict) \o WordsOf(call.prev_text)
        /\ \A i \in 1..Len(value.phrases) : Strip(value.phrases[i]) # <<>>

Candidates == {"zh-TW", "en-US", "de-DE"}

IsBlankSpec(l) == l \in {None, "", " "}

IsForwardAlias(l, languages) ==
    \E r \in languages : languages = {r} /\ IsLookup(ForwardTable, l, r)

\* C25: a transcription with a null, empty or whitespace-only language is
\* configured for auto-detection over zh-TW, en-US, de-DE and with any other
\* language for its forward alias alone; a translation never auto-detects: a
\* null or empty language gives zh-TW alone and any other language, the
\* whitespace-only one included, its forward alias alone.
C25_LanguageConfiguration ==
    value.fn = "configure" =>
        LET l == call.language
        IN IF call.mode = "transcribe"
           THEN IF IsBlankSpec(l) THEN value.languages = Candidates
                ELSE IsForwardAlias(l, value.languages)
           ELSE IF l \in {None, ""} THEN value.languages = {"zh-TW"}
                ELSE IsForwardAlias(l, value.languages)

\* A translation called with the empty language recognizes zh-TW.
C25_Witness ==
    /\ value.fn = "configure"
    /\ call.mode = "translate"
    /\ call.language = ""
    /\ value.languages = {"zh-TW"}

\* C25 as claimed: in both modes an empty language gives auto-detection and
\* a non-empty one its forward alias.
C25_AutoDetectInBothModes ==
    value.fn = "configure" =>
        IF IsBlankSpec(call.language) THEN value.languages = Candidates
        ELSE IsForwardAlias(call.language, value.languages)

\* C26: when model.translate returns a mapping without entries, the response
\* of /translate carries the default mapping with the transcription text
\* under the original language.
C26_EmptyTranslationFallback ==
    (Returned /\ mode = "translate" /\ Len(result.translations) = 0) =>
        /\ DictKeys(response.translate_text) = {"zh", "en", "de"}
        /\ \A k \in {"zh", "en", "de"} :
              DictGet(response.translate_text, k) = IF k = ori THEN result.text ELSE <<>>

\* C27: on both endpoints a session that timed out or failed is answered
\* with status FAILED and a session that produced text with status OK.
C27_FailureVisible ==
    Returned =>
        /\ outcome \in {"TimedOut", "Errored"} => response.status = "FAILED"
        /\ result.text # <<>> => response.status = "OK"

\* C28: a completed transcription that named its language reports the
\* forward alias of that language, whatever text was recognized, the empty
\* text included: never the language the text would be detected as, and
\* never "unknown".
C28_ExplicitLanguageReported ==
    (Returned /\ outcome = "Completed" /\ mode = "transcribe" /\ ori # "") =>
        /\ IsLookup(ForwardTable, ori, result.language)
        /\ result.language # "unknown"

\* zh was requested and nothing was recognized: the language is zh-TW.
C28_Witness ==
    /\ Returned
    /\ outcome = "Completed"
    /\ mode = "transcribe"
    /\ ori = "zh"
    /\ result.text = <<>>
    /\ result.language = "zh-TW"

BackwardAlias(k) == CHOOSE r \in {k, "zh", "en", "de"} : IsLookup(BackwardTable, k, r)

\* C29: the mapping a completed translate returns has one entry per backward
\* alias of the keys the engine delivered, each with the text of a delivered
\* key of that alias, so that zh-Hant and zh-TW share the entry zh; it has no
\* entry at all when the transcription text is empty, whatever fragments
\* were collected.
C29_TranslationsUnderUserCodes ==
    (Returned /\ outcome = "Completed" /\ mode = "translate") =>
        LET raw == combined_translations
            out == result.translations
        IN IF result.text = <<>> THEN out = <<>>
           ELSE /\ DictKeys(out) = {BackwardAlias(k) : k \in DictKeys(raw)}
                /\ Cardinality(DictKeys(out)) = Len(out)
                /\ \A i \in 1..Len(out) :
                      \E j \in 1..Len(raw) :
                          /\ BackwardAlias(raw[j][1]) = out[i][1]
                          /\ raw[j][2] = out[i][2]

\* The engine delivered zh-Hant, en and zh-TW; the result has zh and en.
C29_Witness ==
    /\ Returned
    /\ outcome = "Completed"
    /\ mode = "translate"
    /\ {"zh-Hant", "zh-TW"} \subseteq DictKeys(combined_translations)
    /\ DictKeys(result.translations) = {"zh", "en"}
    /\ Len(result.translations) = 2

\* Fragments were collected and the text is empty: the result has no entry.
C29_EmptyTextWithFragments ==
    /\ Returned
    /\ outcome = "Completed"
    /\ mode = "translate"
    /\ combined_translations # <<>>
    /\ result.text = <<>>
    /\ result.translations = <<>>

\* The stop threads started so far: each one calls
\* recognizer.stop_continuous_recognition() once.
StopRequests ==
    (IF stop_timer # "none" THEN 1 ELSE 0) + (IF stop_caller # "none" THEN 1 ELSE 0)

\* The timeout thread has ended, and without setting the flag: it found
\* recognition_done set when it woke.
TimerSawDone == timer = "finished" /\ ~timeout_occurred

C31_TimerIdleAfterReturn ==
    [][(/\ Returned
        /\ outcome \in {"Completed", "Errored"}
        /\ timer = "sleeping"
        /\ timer' # timer) => timer' \in {"finished", "none"}]_vars

\* C32: an exception of start_continuous_recognition or of the stop call is
\* re-raised, and answered with the failed result, only when the timeout flag
\* is not set at that moment; when it is set, the exception is swallowed, the
\* wrapper goes on to combine what was collected, and the session returns the
\* timed-out result.
C32_ReraiseUnlessTimedOut ==
    [][/\ (failed_at = "none" /\ failed_at' \in {"start", "stop"}) =>
              IF timeout_occurred
              THEN pc' = "combine_text" /\ outcome' = "none" /\ result' = NoResult
              ELSE pc' = "returned" /\ outcome' = "Errored"
       /\ (failed_at \in {"start", "stop"} /\ pc = "return" /\ pc' = "returned") =>
              /\ outcome' = "TimedOut"
              /\ result'.text = <<>>
              /\ result'.rtf = <<0, 1>>
              /\ IF mode = "translate" THEN result'.translations = <<>>
                 ELSE result'.language = "unknown"]_vars

\* start_continuous_recognition raised after the flag was set, and the
\* session returned as timed out.
C32_Witness ==
    /\ Returned
    /\ failed_at = "start"
    /\ outcome = "TimedOut"

\* C33: the normalization applied to the text it produced gives that text
\* again, and the same ordered segments give the same text every time they
\* are normalized, as a text and as the fragments of a translation.
C33_NormalizationIdempotent ==
    value.fn = "renormalize" =>
        /\ value.again = value.text
        /\ value.rerun = value.text
        /\ value.translated = << <<"en", value.text>> >>

\* Two spaces between two ideographs: the text is the two ideographs, and
\* stays so.
C33_Witness ==
    /\ value.fn = "renormalize"
    /\ call.segments = << <<20320, 32, 32, 20320>> >>
    /\ value.text = <<20320, 20320>>
    /\ value.again = <<20320, 20320>>

\* No whitespace at either end, no two whitespace characters in a row, none
\* beside one of the six marks and none between two ideographs.
NormalForm(t) ==
    /\ t # <<>> => (~IsSpace(t[1]) /\ ~IsSpace(t[Len(t)]))
    /\ \A i \in 1..(Len(t) - 1) :
          /\ ~(IsSpace(t[i]) /\ IsSpace(t[i + 1]))
          /\ ~(IsSpace(t[i]) /\ t[i + 1] \in {65292, 12290, 65311, 65281, 65307, 65306})
          /\ ~(t[i] \in {65292, 12290, 65311, 65281, 65307, 65306} /\ IsSpace(t[i + 1]))
    /\ \A i \in 2..(Len(t) - 1) :
          ~(/\ IsSpace(t[i])
            /\ t[i - 1] \in 19968..40959
            /\ t[i + 1] \in 19968..40959)

\* C34: the text and the translation of every language that the aggregation
\* produces are in normal form.
C34_OutputInNormalForm ==
    /\ value.fn = "normalize" => NormalForm(value.text)
    /\ value.fn = "renormalize" =>
          \A i \in 1..Len(value.translated) : NormalForm(value.translated[i][2])

\* "你好 ，世界" becomes "你好，世界".
C34_Witness ==
    /\ value.fn = "normalize"
    /\ call.segments = <<NiHao_Comma_ShiJie>>
    /\ value.text = <<20320, 22909, 65292, 19990, 30028>>

\* C35: a recognized event with empty text leaves the text segments and the
\* translation fragments as they are, and no language ever has more
\* fragments than there are text segments.
C35_EmptyEventContributesNothing ==
    [][/\ (/\ Len(arrived') > Len(arrived)
           /\ arrived'[Len(arrived')].text = <<>>) =>
              /\ transcription_results' = transcription_results
              /\ translation_results' = translation_results
       /\ \A i \in 1..Len(translation_results') :
              Len(translation_results'[i][2]) <= Len(transcription_results')]_vars

\* A translate session after an event with text and one without: one
\* segment, and one fragment for en.
C35_Witness ==
    /\ mode = "translate"
    /\ Len(arrived) = 2
    /\ arrived[1].text # <<>>
    /\ arrived[2].text = <<>>
    /\ arrived[2].translations # <<>>
    /\ Len(transcription_results) = 1
    /\ \E i \in 1..Len(translation_results) :
          translation_results[i][1] = "en" /\ Len(translation_results[i][2]) = 1

\* C36: change_custom_model returns False and leaves the four fields as they
\* are when the new configuration has no name, no subscription key or no
\* service region; otherwise it returns True and the four fields are those
\* of the new configuration, the endpoint id none when it has none.
C36_ChangeAllOrNothing ==
    value.fn = "change_custom_model" =>
        LET c == call.config
            lacks == c.name = None \/ c.SubscriptionKey = None \/ c.ServiceRegion = None
        IN IF lacks
           THEN value.ret = FALSE /\ value.self = call.self
           ELSE /\ value.ret = TRUE
                /\ value.self.model_version = c.name
                /\ value.self.subscription_key = c.SubscriptionKey
                /\ value.self.service_region = c.ServiceRegion
                /\ value.self.endpoint_id = c.EndpointId

\* A model with an endpoint id changes to a configuration without one.
C36_Witness ==
    /\ value.fn = "change_custom_model"
    /\ call.self.endpoint_id = "e1"
    /\ call.config = [name |-> "m2", SubscriptionKey |-> "k2", ServiceRegion |-> "r2",
                      EndpointId |-> None]
    /\ value.ret = TRUE
    /\ value.self = [model_version |-> "m2", subscription_key |-> "k2",
                     service_region |-> "r2", endpoint_id |-> None]

PairConsistent(p) ==
    /\ p.is_valid => p.error_message = ""
    /\ ~p.is_valid => p.error_message # ""

\* C37: whenever key_test returns, with or without a named config file, a
\* pair with is_valid True has the empty message and a pair with is_valid
\* False a message that is not empty.
C37_PairConsistent ==
    /\ value.fn = "key_test" => PairConsistent(value.out)
    /\ (value.fn = "key_test_name" /\ ~value.ret.raised) => PairConsistent(value.ret.out)

\* A result that is neither canceled, recognized nor NoMatch: False with the
\* message of line 656.
C37_Witness ==
    /\ value.fn = "key_test"
    /\ ~call.once.raised
    /\ call.once.reason = "RecognizingSpeech"
    /\ value.out.is_valid = FALSE
    /\ value.out.error_message = <<"Unexpected test result: ", "RecognizingSpeech">>

\* C38: the RTF of a completed session is its processing time divided by the
\* duration found in the file, or 0 when no positive duration is found: the
\* session hands no engine duration to calculate_rtf.
C38_RtfFromFileOrZero ==
    (Returned /\ outcome = "Completed") =>
        \/ result.rtf = <<0, 1>>
        \/ \E p \in Probes :
              /\ p.ok
              /\ p.samplerate > 0
              /\ p.frames > 0
              /\ result.rtf = Rat(result.time * p.samplerate, p.frames)

\* Five seconds of processing for the ten seconds of the file: RTF 1/2.
C38_Witness ==
    /\ Returned
    /\ outcome = "Completed"
    /\ mode = "translate"
    /\ result.time = 5
    /\ result.rtf = <<1, 2>>
====
